---- MODULE Spec2Model ----
(***************************************************************************)
(* HashTable<Key, Value> of src/src/hash_table.rs: open addressing with    *)
(* linear probing over a Vec of slots, growth by Vec::resize, removal by   *)
(* marking the slot deleted.  Keys and values are i32, as in the           *)
(* repository's tests; a key is hashed over its bincode bytes.             *)
(***************************************************************************)
EXTENDS Integers, Sequences, FiniteSets, TLC

\* const INITIAL_CAPACITY: usize = 64;
INITIAL_CAPACITY == 64

\* ---- bounds of the model ----
\* Keys the calls are made with: 1, 65, 129, ... (all hash to slot 63 of 64).
NumKeys == 2
\* Values are 0..MaxValue.
MaxValue == 1
\* from(v) is called with v = the pairs (0,0) .. (MaxPrefill-1, 0), then a tail.
MaxPrefill == 44
\* Number of insert and remove calls made on one table under Spec.
MaxOps == 3
\* The same under SpecDeep, whose from(v) is also called with a tail of at
\* most MaxFromLen pairs over Keys x Values.
DeepOps == 7
MaxFromLen == 1

Keys == {1 + INITIAL_CAPACITY * i : i \in 0..(NumKeys - 1)}
\* A key in the probe cluster of Keys that no call is made with.
AbsentKey == 1 + INITIAL_CAPACITY * NumKeys
Values == 0..MaxValue

\* Option<T>: None is <<>>, Some(x) is <<x>>.
None == <<>>
Some(x) == <<x>>

\* ---- hash ----
\* usize arithmetic wraps modulo 2^64.  Only hash % size() is ever used and
\* size() is 64 * 2^n, a divisor of HashModulus, so the accumulator is kept
\* modulo HashModulus: reduction modulo size() commutes with it.
HashModulus == 2^14

\* bincode::serialize of an i32 >= 0: four bytes, little endian.
serialize(key) ==
    << key % 256, (key \div 256) % 256, (key \div 65536) % 256, (key \div 16777216) % 256 >>

\* hash << n
Shl(x, n) == (x * (2^n)) % HashModulus

WrappingAdd(a, b) == (a + b) % HashModulus
WrappingSub(a, b) == (a + HashModulus - b) % HashModulus

\* One iteration of the loop body of hash.
HashStep(acc, byte) ==
    WrappingSub(WrappingAdd(WrappingAdd(byte, Shl(acc, 6)), Shl(acc, 16)), acc)

RECURSIVE HashBytes(_, _)
HashBytes(bytes, acc) ==
    IF bytes = <<>> THEN acc
    ELSE HashBytes(Tail(bytes), HashStep(acc, Head(bytes)))

hash(key) == HashBytes(serialize(key), 0)

\* hash is pure: its value for every key the model uses, computed once.
KeyUniverse == (0..(2 * MaxPrefill + 2)) \cup (0..INITIAL_CAPACITY) \cup Keys \cup {AbsentKey}

HashOf == [key \in KeyUniverse |-> hash(key)]

\* ---- HashElement ----
HashElement(key, value, default, deleted) ==
    [key |-> key, value |-> value, default |-> default, deleted |-> deleted]

\* HashElement { key: Key::default(), value: Value::default(), default: true, deleted: false }
DefaultElement == HashElement(0, 0, TRUE, FALSE)

\* The condition of every probe loop: the slot is neither default nor deleted.
Occupied(e) == ~e.default /\ ~e.deleted

\* ---- HashTable: a table t is [kvs, len]; kvs[i + 1] is the Rust kvs[i] ----
new == [kvs |-> [i \in 1..INITIAL_CAPACITY |-> DefaultElement], len |-> 0]

size(t) == Len(t.kvs)

is_empty(t) == t.len = 0

\* Faulty variants of the load-factor test: the threshold 7.0, and the threshold 0.5.
LoadFactorAboveSeven(t) == t.len > 7 * size(t)

LoadFactorAboveHalf(t) == 10 * t.len > 5 * size(t)

\* self.load_factor() > 0.7, an f64 comparison.  len / size is never equal to
\* 0.7 (size is a power of two), so it is the integer comparison.
LoadFactorAbove(t) == 10 * t.len > 7 * size(t)

\* Faulty variants of resize: one that extends the table by INITIAL_CAPACITY
\* slots instead of doubling it, and one that allocates the doubled table
\* afresh and drops the old slots.
resize_by_initial_capacity(t) ==
    [t EXCEPT !.kvs = t.kvs \o [i \in 1..INITIAL_CAPACITY |-> DefaultElement]]

resize_discarding(t) ==
    [t EXCEPT !.kvs = [i \in 1..(2 * size(t)) |-> DefaultElement]]

\* self.kvs.resize(self.size() * 2, <default element>)
resize(t) ==
    [t EXCEPT !.kvs = t.kvs \o [i \in 1..size(t) |-> DefaultElement]]

\* The probe loops.  n counts the slots inspected, the current one included.
\* A loop that has inspected every slot and found each occupied by another
\* key goes round forever: diverged.
Probe(found, pos, n, diverged) ==
    [found |-> found, pos |-> pos, probes |-> n, diverged |-> diverged]

RECURSIVE InsertLoop(_, _, _, _)
InsertLoop(kvs, key, pos, n) ==
    IF n > Len(kvs) THEN Probe(FALSE, pos, n - 1, TRUE)
    ELSE IF ~kvs[pos + 1].default /\ ~kvs[pos + 1].deleted
         THEN IF kvs[pos + 1].key = key
              THEN Probe(TRUE, pos, n, FALSE)
              ELSE InsertLoop(kvs, key, (pos + 1) % Len(kvs), n + 1)
         ELSE Probe(FALSE, pos, n, FALSE)

RECURSIVE GetLoop(_, _, _, _)
GetLoop(kvs, key, pos, n) ==
    IF n > Len(kvs) THEN Probe(FALSE, pos, n - 1, TRUE)
    ELSE IF ~kvs[pos + 1].default /\ ~kvs[pos + 1].deleted
         THEN IF kvs[pos + 1].key = key
              THEN Probe(TRUE, pos, n, FALSE)
              ELSE GetLoop(kvs, key, (pos + 1) % Len(kvs), n + 1)
         ELSE Probe(FALSE, pos, n, FALSE)

RECURSIVE GetMutLoop(_, _, _, _)
GetMutLoop(kvs, key, pos, n) ==
    IF n > Len(kvs) THEN Probe(FALSE, pos, n - 1, TRUE)
    ELSE IF ~kvs[pos + 1].default /\ ~kvs[pos + 1].deleted
         THEN IF kvs[pos + 1].key = key
              THEN Probe(TRUE, pos, n, FALSE)
              ELSE GetMutLoop(kvs, key, (pos + 1) % Len(kvs), n + 1)
         ELSE Probe(FALSE, pos, n, FALSE)

RECURSIVE RemoveLoop(_, _, _, _)
RemoveLoop(kvs, key, pos, n) ==
    IF n > Len(kvs) THEN Probe(FALSE, pos, n - 1, TRUE)
    ELSE IF pos < Len(kvs) /\ ~kvs[pos + 1].default /\ ~kvs[pos + 1].deleted
         THEN IF kvs[pos + 1].key = key
              THEN Probe(TRUE, pos, n, FALSE)
              ELSE RemoveLoop(kvs, key, (pos + 1) % Len(kvs), n + 1)
         ELSE Probe(FALSE, pos, n, FALSE)

\* insert(key, value): the table after the call, with the probe it made.
insert(t, key, value) ==
    LET t1 == IF LoadFactorAbove(t) THEN resize(t) ELSE t
        p  == InsertLoop(t1.kvs, key, HashOf[key] % size(t1), 1)
    IN  IF p.diverged
        THEN [kvs |-> t1.kvs, len |-> t1.len, probe |-> p]
        ELSE IF p.found
        THEN [kvs |-> [t1.kvs EXCEPT ![p.pos + 1].value = value],
              len |-> t1.len, probe |-> p]
        ELSE [kvs |-> [t1.kvs EXCEPT ![p.pos + 1] = HashElement(key, value, FALSE, FALSE)],
              len |-> t1.len + 1, probe |-> p]

\* Faulty variant of get's probe: the start index is taken modulo the initial
\* capacity instead of the current size.
get_probe_initial_capacity(t, key) ==
    GetLoop(t.kvs, key, HashOf[key] % INITIAL_CAPACITY, 1)

\* get(&key): the probe, and the Option it returns.
get_probe(t, key) == GetLoop(t.kvs, key, HashOf[key] % size(t), 1)

get(t, key) ==
    LET p == get_probe(t, key)
    IN  IF p.found THEN Some(t.kvs[p.pos + 1].value) ELSE None

\* Faulty variant of get_mut: the start index taken modulo the initial capacity.
get_mut_probe_initial_capacity(t, key) ==
    GetMutLoop(t.kvs, key, HashOf[key] % INITIAL_CAPACITY, 1)

\* get_mut(&key): the probe; Some(&mut kvs[pos].value) is the slot p.pos.
get_mut_probe(t, key) == GetMutLoop(t.kvs, key, HashOf[key] % size(t), 1)

get_mut(t, key) ==
    LET p == get_mut_probe(t, key)
    IN  IF p.found THEN Some(t.kvs[p.pos + 1].value) ELSE None

\* *get_mut(&key).unwrap() = value
WriteThrough(t, pos, value) ==
    [t EXCEPT !.kvs = [t.kvs EXCEPT ![pos + 1].value = value]]

\* Faulty variant of remove: the slot is not marked deleted.
remove_without_tombstone(t, key) ==
    LET p == RemoveLoop(t.kvs, key, HashOf[key] % size(t), 1)
    IN  IF p.found
        THEN [kvs |-> t.kvs, len |-> t.len - 1, probe |-> p,
              ret |-> Some(t.kvs[p.pos + 1].value)]
        ELSE [kvs |-> t.kvs, len |-> t.len, probe |-> p, ret |-> None]

\* Faulty variant of remove: len is decremented also when the key is not found.
remove_decrementing_always(t, key) ==
    LET p == RemoveLoop(t.kvs, key, HashOf[key] % size(t), 1)
    IN  IF p.found
        THEN [kvs |-> [t.kvs EXCEPT ![p.pos + 1].deleted = TRUE],
              len |-> t.len - 1, probe |-> p,
              ret |-> Some(t.kvs[p.pos + 1].value)]
        ELSE [kvs |-> t.kvs, len |-> t.len - 1, probe |-> p, ret |-> None]

\* remove(key): the table after the call, the probe and the Option returned.
remove(t, key) ==
    LET p == RemoveLoop(t.kvs, key, HashOf[key] % size(t), 1)
    IN  IF p.found
        THEN [kvs |-> [t.kvs EXCEPT ![p.pos + 1].deleted = TRUE],
              len |-> t.len - 1, probe |-> p,
              ret |-> Some(t.kvs[p.pos + 1].value)]
        ELSE [kvs |-> t.kvs, len |-> t.len, probe |-> p, ret |-> None]

\* from(v): new(), then insert of each pair in order.  FromLoop(acc, v, lo, hi)
\* is acc after the iterations lo..hi of the loop (the range is halved only to
\* keep the evaluation shallow: the inserts are made in the order lo, .., hi).
\* diverged: some insert of the loop never returned; resizes: the calls of
\* resize made; probes: the slots the last insert inspected.
RECURSIVE FromLoop(_, _, _, _)
FromLoop(acc, v, lo, hi) ==
    IF lo > hi THEN acc
    ELSE IF lo = hi
    THEN LET r == insert([kvs |-> acc.kvs, len |-> acc.len], v[lo][1], v[lo][2])
         IN  [kvs |-> r.kvs, len |-> r.len,
              diverged |-> acc.diverged \/ r.probe.diverged,
              resizes |-> acc.resizes + (IF Len(r.kvs) # Len(acc.kvs) THEN 1 ELSE 0),
              probes |-> r.probe.probes]
    ELSE LET mid == (lo + hi) \div 2
             left == FromLoop(acc, v, lo, mid)
         IN  IF left.len >= 0 THEN FromLoop(left, v, mid + 1, hi) ELSE left

from(v) ==
    FromLoop([kvs |-> new.kvs, len |-> new.len, diverged |-> FALSE,
              resizes |-> 0, probes |-> 0], v, 1, Len(v))

\* ---- the reference map: the calls replayed on a key-value map ----
RefInsert(m, key, value) ==
    [x \in (DOMAIN m) \cup {key} |-> IF x = key THEN value ELSE m[x]]

RefRemove(m, key) == [x \in (DOMAIN m) \ {key} |-> m[x]]

\* The map after inserting the pairs of v in order: each key of v with the
\* value of the last pair that has it.
RefFrom(v) ==
    [x \in {v[i][1] : i \in DOMAIN v} |->
        v[CHOOSE i \in DOMAIN v :
            /\ v[i][1] = x
            /\ \A j \in DOMAIN v : v[j][1] = x => j <= i][2]]

EmptyRef == [x \in {} |-> 0]

\* ---- the vectors from() is called with ----
\* (0, 0), (1, 0), ..., (n - 1, 0): the keys of test_resizing_when_collision.
Prefill(n) == [i \in 1..n |-> <<i - 1, 0>>]

\* new(); a table of 64 slots one insert below the load-factor limit; the 65
\* keys of test_resizing_when_collision; a table of 128 slots at the limit.
PrefillSizes == {0, MaxPrefill, INITIAL_CAPACITY + 1, 2 * MaxPrefill + 2}

Pairs == Keys \X Values

Tails == UNION {[1..n -> Pairs] : n \in 0..MaxFromLen}

FromVectors == {Prefill(n) : n \in PrefillSizes}

DeepFromVectors == {Prefill(n) \o tail : n \in PrefillSizes, tail \in Tails}

\* ---- state ----
VARIABLES
    kvs,    \* HashTable.kvs
    len,    \* HashTable.len
    ref,    \* the reference map of the calls made so far
    last,   \* the last call: its name, arguments, return value and probe
    ops     \* number of insert and remove calls made

vars == <<kvs, len, ref, last, ops>>

\* The table as the operators take it.
T == [kvs |-> kvs, len |-> len]

\* A call on the table.  prev: whether the call before it was an insert or a
\* remove of the same key, and whether that call returned Some.  resizes: the
\* calls of resize made inside the call.
Call(op, key, arg, ret, probe, resizes, pairs, prev) ==
    [op |-> op, key |-> key, arg |-> arg, ret |-> ret,
     probes |-> probe.probes, diverged |-> probe.diverged,
     resizes |-> resizes, pairs |-> pairs, prev |-> prev]

Prev(key) ==
    IF last.key = key /\ last.op \in {"insert", "remove"}
    THEN <<last.op, last.ret # None>>
    ELSE <<"other", FALSE>>

\* The table is constructed by from(v); from(<<>>) is new().
Construct(v) ==
    LET t == from(v)
    IN  /\ kvs = t.kvs
        /\ len = t.len
        /\ ref = RefFrom(v)
        /\ last = Call("from", 0, None, None, t, t.resizes, v, <<"other", FALSE>>)
        /\ ops = 0

Init == \E v \in FromVectors : Construct(v)

InitDeep == \E v \in DeepFromVectors : Construct(v)

Insert(key, value, max) ==
    /\ ops < max
    /\ LET r == insert(T, key, value)
       IN  /\ kvs' = r.kvs
           /\ len' = r.len
           /\ last' = Call("insert", key, Some(value), None, r.probe,
                           IF Len(r.kvs) # Len(kvs) THEN 1 ELSE 0, <<>>, Prev(key))
    /\ ref' = RefInsert(ref, key, value)
    /\ ops' = ops + 1

Remove(key, max) ==
    /\ ops < max
    /\ LET r == remove(T, key)
       IN  /\ kvs' = r.kvs
           /\ len' = r.len
           /\ last' = Call("remove", key, None, r.ret, r.probe, 0, <<>>, Prev(key))
    /\ ref' = RefRemove(ref, key)
    /\ ops' = ops + 1

Get(key) ==
    /\ last' = Call("get", key, None, get(T, key), get_probe(T, key), 0, <<>>, Prev(key))
    /\ UNCHANGED <<kvs, len, ref, ops>>

\* get_mut(&key), and with arg = Some(value) a write of value through the
\* reference it returned.
GetMut(key, arg) ==
    /\ LET p == get_mut_probe(T, key)
           w == p.found /\ arg # None
       IN  /\ kvs' = IF w THEN WriteThrough(T, p.pos, arg[1]).kvs ELSE kvs
           /\ ref' = IF w /\ key \in DOMAIN ref THEN RefInsert(ref, key, arg[1]) ELSE ref
           /\ last' = Call("get_mut", key, arg, get_mut(T, key), p, 0, <<>>, Prev(key))
    /\ UNCHANGED <<len, ops>>

Calls(max) ==
    \/ \E key \in Keys, value \in Values : Insert(key, value, max)
    \/ \E key \in Keys : Remove(key, max)
    \/ \E key \in Keys : Get(key)
    \/ \E key \in Keys, arg \in {None} \cup {Some(value) : value \in Values} : GetMut(key, arg)

Next == Calls(MaxOps)

NextDeep == Calls(DeepOps)

\* At most MaxOps inserts and removes on a table made by from of a prefix of
\* the keys 0, 1, 2, ...
Spec == Init /\ [][Next]_vars

\* At most DeepOps inserts and removes on a table made by from of such a
\* prefix followed by pairs over Keys x Values.
SpecDeep == InitDeep /\ [][NextDeep]_vars

\* ---- the calls as steps ----
InsertStep(key) == ops' = ops + 1 /\ last'.op = "insert" /\ last'.key = key
RemoveStep(key) == ops' = ops + 1 /\ last'.op = "remove" /\ last'.key = key
GetStep(key) == ops' = ops /\ last'.op = "get" /\ last'.key = key /\ last' # last
GetMutStep(key) == ops' = ops /\ last'.op = "get_mut" /\ last'.key = key /\ last' # last

\* Some occupied slot holds key.
InSlots(s, key) == \E i \in DOMAIN s : Occupied(s[i]) /\ s[i].key = key

\* What the reference map answers to get(key).
RefGet(key) == IF key \in DOMAIN ref THEN Some(ref[key]) ELSE None

\* ---- claims ----

\* C1: once insert(k, v) has completed, get(k) returns v after any further
\* inserts and removes of other keys, as long as k is neither removed nor
\* inserted again: every key of the reference map is found with its value.
C1_GetReturnsInserted == \A k \in DOMAIN ref : get(T, k) = Some(ref[k])

\* C2: after any sequence of insert and remove calls, len() is the size of
\* the reference map of the same calls.
C2_LenIsReferenceSize == len = Cardinality(DOMAIN ref)

\* C3: insert(k, v2) called directly after insert(k, v1) leaves len() as it
\* was after the first insert and makes get(k) return v2, also when the second
\* insert is called with len/capacity > 0.7.
C3_InsertTwiceUpdatesInPlace ==
    [][\A k \in Keys :
          (last.op = "insert" /\ last.key = k /\ InsertStep(k))
          => (len' = len /\ get(T', k) = last'.arg)]_vars

\* C4: when k is in the mapping with value v, remove(k) returns v, len()
\* decreases by exactly 1, size() is unchanged and a get(k) made afterwards
\* reports absence.
C4_RemovePresent ==
    [][\A k \in Keys :
          (RemoveStep(k) /\ k \in DOMAIN ref)
          => /\ last'.ret = Some(ref[k])
             /\ len' = len - 1
             /\ Len(kvs') = Len(kvs)
             /\ get(T', k) = None]_vars

\* C5: remove(k) of a key that is not in the mapping returns absence and
\* changes neither len(), size() nor any slot.
C5_RemoveAbsentChangesNothing ==
    [][\A k \in Keys :
          (RemoveStep(k) /\ k \notin DOMAIN ref)
          => (last'.ret = None /\ kvs' = kvs /\ len' = len)]_vars

\* C6: after remove(k) has returned a value, a directly following
\* insert(k, v') makes get(k) return v' and increases len() by exactly 1.
C6_InsertAfterRemove ==
    [][\A k \in Keys :
          (last.op = "remove" /\ last.key = k /\ last.ret # None /\ InsertStep(k))
          => (get(T', k) = last'.arg /\ len' = len + 1)]_vars

\* C6 witness: an insert(k, v') made directly after a remove(k) that
\* returned a value.
C6_Witness == last.op = "insert" /\ last.prev = <<"remove", TRUE>>

\* C7: from(pairs) is new() followed by insert of each pair in order, and the
\* result is last-write-wins: get(k) is the value of the last pair with key k,
\* absence for a key of no pair, and len() is the number of distinct keys.
C7_FromLastWriteWins ==
    last.op = "from" =>
        /\ \A k \in (DOMAIN ref) \cup Keys \cup {AbsentKey} : get(T, k) = RefGet(k)
        /\ len = Cardinality(DOMAIN ref)
        /\ last.pairs # <<>> =>
              LET n == Len(last.pairs)
                  t == from(SubSeq(last.pairs, 1, n - 1))
                  r == insert([kvs |-> t.kvs, len |-> t.len],
                              last.pairs[n][1], last.pairs[n][2])
              IN  kvs = r.kvs /\ len = r.len

C9_GetMutFrame ==
    /\ [](\A k \in Keys \cup {AbsentKey} :
            /\ get_mut(T, k) = get(T, k)
            /\ get_mut_probe(T, k).found = get_probe(T, k).found
            /\ get_probe(T, k).found => get_mut_probe(T, k).pos = get_probe(T, k).pos)
    /\ [][\A k \in Keys :
            /\ GetStep(k) => (kvs' = kvs /\ len' = len)
            /\ GetMutStep(k) =>
                  /\ last'.ret = get(T, k)
                  /\ len' = len /\ Len(kvs') = Len(kvs)
                  /\ (last'.arg = None \/ last'.ret = None) => kvs' = kvs
                  /\ (last'.arg # None /\ last'.ret # None) =>
                        /\ get(T', k) = last'.arg
                        /\ \E i \in DOMAIN kvs :
                              /\ kvs[i].key = k /\ Occupied(kvs[i])
                              /\ kvs' = [kvs EXCEPT ![i].value = last'.arg[1]]]_vars

\* C9 witness: a write through get_mut has changed the value that was stored.
C9_Witness ==
    /\ last.op = "get_mut" /\ last.arg # None /\ last.ret # None
    /\ last.arg # last.ret
    /\ get(T, last.key) = last.arg

\* C10: every call of insert, get, get_mut and remove terminates and its probe
\* loop inspects at most capacity slots: in every reachable state some slot is
\* not occupied (len < capacity), so no probe goes round forever, also for a
\* key that is absent.
C10_ProbesTerminate ==
    /\ len < Len(kvs)
    /\ \E i \in DOMAIN kvs : ~Occupied(kvs[i])
    /\ ~last.diverged /\ last.probes <= Len(kvs)
    /\ \A k \in Keys \cup {AbsentKey} :
          /\ ~get_probe(T, k).diverged /\ get_probe(T, k).probes <= Len(kvs)
          /\ ~get_mut_probe(T, k).diverged /\ get_mut_probe(T, k).probes <= Len(kvs)
          /\ ~remove(T, k).probe.diverged /\ remove(T, k).probe.probes <= Len(kvs)
          /\ ~insert(T, k, 0).probe.diverged
          /\ insert(T, k, 0).probe.probes <= Len(insert(T, k, 0).kvs)

\* C10 witness: a lookup of an absent key has walked past occupied slots,
\* round the end of the table, and stopped.
C10_Witness ==
    /\ last.op = "get" /\ last.ret = None /\ last.key \notin DOMAIN ref
    /\ last.probes >= 3

\* ---- capacity ----
\* n is INITIAL_CAPACITY doubled some number of times.
RECURSIVE IsDoublingOfInitial(_)
IsDoublingOfInitial(n) ==
    \/ n = INITIAL_CAPACITY
    \/ n > INITIAL_CAPACITY /\ n % 2 = 0 /\ IsDoublingOfInitial(n \div 2)

\* C11: new() has exactly 64 slots, all empty, and len() = 0; in every
\* reachable state size() is 64 * 2^n for some n >= 0, and no operation makes
\* size() smaller.
C11_CapacityIsDoubledInitial ==
    /\ []((last.op = "from" /\ last.pairs = <<>>)
            => (/\ Len(kvs) = 64 /\ len = 0 /\ T = new
                /\ \A i \in DOMAIN kvs : kvs[i].default /\ ~kvs[i].deleted))
    /\ [](IsDoublingOfInitial(size(T)))
    /\ [][size(T') >= size(T)]_vars

\* C11 witness: the table has been doubled twice and holds entries and a
\* tombstone.
C11_Witness ==
    /\ size(T) = 4 * INITIAL_CAPACITY
    /\ last.op = "remove" /\ last.ret # None

\* C12: in every state reached by insert and remove calls no two occupied
\* slots hold equal keys, and every key of the mapping is in exactly one
\* occupied slot.
C12_NoDuplicateKeys ==
    /\ \A i \in DOMAIN kvs :
          Occupied(kvs[i]) =>
             \A j \in (i + 1)..Len(kvs) : Occupied(kvs[j]) => kvs[j].key # kvs[i].key
    /\ \A k \in DOMAIN ref : InSlots(kvs, k)

\* C13: a deleted slot does not end a lookup: for distinct keys k and k', if
\* get(k') returns v before remove(k), then get(k'), get_mut(k') and
\* remove(k') still find v after remove(k) (the slot remove(k) marked deleted
\* is passed over by the searches for k').
C13_TombstoneDoesNotEndLookup ==
    [][\A k \in Keys : \A k2 \in Keys \ {k} :
          (RemoveStep(k) /\ get(T, k2) # None)
             => /\ get(T', k2) = get(T, k2)
                /\ get_mut(T', k2) = get(T, k2)
                /\ remove(T', k2).ret = get(T, k2)]_vars

\* C14: growth keeps lookups valid: if get(k') returns v, then after an
\* insert of another key k that doubles the capacity get(k') still returns v.
C14_GrowthKeepsLookups ==
    [][\A k \in Keys : \A k2 \in KeyUniverse \ {k} :
          (InsertStep(k) /\ size(T') = 2 * size(T) /\ get(T, k2) # None)
             => get(T', k2) = get(T, k2)]_vars

\* C15: after every completed insert 10 * len <= 7 * capacity.
C15_LoadFactorAfterInsert ==
    (last.op = "insert" /\ ~last.diverged) => 10 * len <= 7 * size(T)

\* C15, amended: insert tests the load factor on entry, before it places the
\* entry, so after every completed insert (and after from) the load factor
\* exceeds 0.7 by at most the one entry just placed:
\* 10 * (len - 1) <= 7 * capacity.
C15_LoadFactorBeforePlacing ==
    (last.op \in {"insert", "from"} /\ ~last.diverged)
       => 10 * (len - 1) <= 7 * size(T)

\* C15 witness: an insert has completed without growing the table and left
\* the load factor above 0.7.
C15_Witness ==
    /\ last.op = "insert" /\ ~last.diverged /\ last.resizes = 0
    /\ 10 * len > 7 * size(T)
    /\ 10 * (len - 1) <= 7 * size(T)

\* C16: insert passes over deleted slots and writes a key it did not find
\* only into an empty slot: a slot that is deleted stays deleted, it never
\* becomes occupied again.
C16_TombstonesNeverReclaimed ==
    [][\A i \in DOMAIN kvs :
          /\ kvs[i].deleted => (kvs'[i].deleted /\ ~Occupied(kvs'[i]))
          /\ (Occupied(kvs'[i]) /\ ~Occupied(kvs[i])) => kvs[i].default]_vars

\* ---- len ----
OccupiedSlots(s) == {i \in DOMAIN s : Occupied(s[i])}

\* C17: in every reachable state len is the number of occupied slots (neither
\* default nor deleted), so len <= capacity, is_empty() holds exactly when no
\* slot is occupied, and the decrement of len in remove never takes it below 0.
C17_LenCountsOccupiedSlots ==
    /\ len = Cardinality(OccupiedSlots(kvs))
    /\ len <= size(T)
    /\ is_empty(T) <=> OccupiedSlots(kvs) = {}
    /\ len >= 0
    /\ \A k \in Keys \cup {AbsentKey} : remove(T, k).len >= 0

\* C17 witness: remove has emptied a table again: it holds a deleted slot, no
\* occupied slot, and is_empty() is true.
C17_Witness ==
    /\ last.op = "remove" /\ last.ret # None
    /\ is_empty(T)
    /\ \E i \in DOMAIN kvs : kvs[i].deleted

\* ---- frame of resize and insert ----
\* Slot i of the slots s after default slots were appended to them.
Extended(s, i) == IF i <= Len(s) THEN s[i] ELSE DefaultElement

\* The slots that differ between s extended with default slots and s2.
ChangedSlots(s, s2) == {i \in DOMAIN s2 : s2[i] # Extended(s, i)}

\* C18: resize keeps the key, value and state of every slot below the old
\* capacity, at the same index, and every appended slot is empty; one insert
\* call writes one slot (the one it overwrites or fills), which then holds the
\* key and the value as occupied, changes no other slot, and changes len by 0
\* or +1.
C18_GrowthAndInsertFrame ==
    /\ [](/\ size(resize(T)) = 2 * size(T)
          /\ resize(T).len = len
          /\ ChangedSlots(kvs, resize(T).kvs) = {})
    /\ [][\A k \in Keys :
            InsertStep(k) =>
               LET changed == ChangedSlots(kvs, kvs')
               IN  /\ len' - len \in {0, 1}
                   /\ Cardinality(changed) <= 1
                   /\ \E i \in (IF changed = {} THEN DOMAIN kvs' ELSE changed) :
                         /\ kvs'[i] = HashElement(k, last'.arg[1], FALSE, FALSE)
                         /\ len' = len + 1 <=> ~Occupied(Extended(kvs, i))]_vars

\* C18 witness: an insert has doubled the table and filled one of the appended
\* slots, above the entries of the old table.
C18_Witness ==
    /\ last.op = "insert" /\ last.resizes = 1
    /\ \E i \in (size(T) \div 2 + 1)..size(T) :
          Occupied(kvs[i]) /\ kvs[i].key = last.key
    /\ Cardinality({i \in 1..(size(T) \div 2) : Occupied(kvs[i])}) = len - 1

\* C19: read-your-write: in every reachable state, whatever deleted slots,
\* earlier growths or stale entries it holds, get(k) made immediately after
\* insert(k, v) returns v, also when the insert grew the table or filled a
\* deleted slot.
C19_ReadYourWrite ==
    /\ last.op = "insert" => get(T, last.key) = last.arg
    /\ \A k \in Keys : \A v \in Values :
          LET r == insert(T, k, v)
          IN  get([kvs |-> r.kvs, len |-> r.len], k) = Some(v)

\* C19 witness: an insert has grown the table and written its key at a start
\* index where the key's older entry is not, and get returns the new value.
C19_Witness ==
    /\ last.op = "insert" /\ last.resizes = 1 /\ last.probes = 1
    /\ Cardinality({i \in DOMAIN kvs : Occupied(kvs[i]) /\ kvs[i].key = last.key}) = 2
    /\ get(T, last.key) = last.arg

====
